---- MODULE Spec2Model ----
(***************************************************************************)
(* Model of the Panny backend (src/main.py): the conversation and message  *)
(* collections of the document store, the chat turn of POST /api/chat as   *)
(* the sequence of store operations and clock readings it performs, the    *)
(* two list endpoints, and the reply generator.                            *)
(*                                                                         *)
(* Texts are sequences of characters, so that strip(), lower() and the     *)
(* substring test `word in lowered` are computed.  A canned reply          *)
(* is a text of one chunk holding the whole reply.  Timestamps are         *)
(* readings of the wall clock in units of the store's resolution; the wall *)
(* clock is not monotonic (between two readings it may stand still, go     *)
(* forward or be set back), so a reading is any value of its range.        *)
(* Message documents keep the fields the handlers read (conversation_id,   *)
(* role, content, created_at); the updated_at written on a message is      *)
(* never read by the service and is left out.                              *)
(***************************************************************************)
EXTENDS Integers, Sequences, FiniteSets, TLC

VARIABLES
    db,            \* the process-wide store handle: "None" or "Database"
    conversation,  \* db["conversation"]: sequence of documents, _id = index
    message,       \* db["message"]: sequence of documents in insertion order
    turns,         \* number of chat calls made so far
    pc,            \* per worker: position inside chat()
    frame,         \* per worker: the locals of the chat() call in progress
    response,      \* what the latest step returned to its HTTP client
    user_text      \* argument of a direct generate_reply call

vars == <<db, conversation, message, turns, pc, frame, response, user_text>>

(***************************************************************************)
(* Bounds                                                                  *)
(***************************************************************************)
MaxClock == 1      \* largest clock reading; readings are 0..MaxClock
MaxLimit == 2      \* largest `limit` query parameter tried
MaxParts == 2      \* fragments concatenated into a generate_reply input

Procs == {1, 2}    \* request worker threads

\* Chat calls per run: as many as there are workers, so that the calls of a run
\* can overlap in every way or follow one another.
MaxTurns == Cardinality(Procs)

(***************************************************************************)
(* Texts                                                                   *)
(***************************************************************************)
\* A character is a string: the character itself when it is below U+0100, and
\* the name of its code point ("U+3000") for the white space above that range.

\* The characters str.strip() removes: space, \t, \n, \r, \f and the control
\* characters 0B (\v), 1C, 1D, 1E, 1F, 85 and the no-break space A0, written as
\* themselves, and the white space of the higher code points.
Whitespace ==
    {" ", "\t", "\n", "\r", "\f", "", "", "", "", "",
     "", " ",
     "U+1680", "U+2000", "U+2001", "U+2002", "U+2003", "U+2004", "U+2005",
     "U+2006", "U+2007", "U+2008", "U+2009", "U+200A", "U+2028", "U+2029",
     "U+202F", "U+205F", "U+3000"}

\* The letters below U+0100 that str.lower() changes, and what it changes them
\* to.
UpperChars == <<"A","B","C","D","E","F","G","H","I","J","K","L","M",
                "N","O","P","Q","R","S","T","U","V","W","X","Y","Z",
                "À","Á","Â","Ã","Ä","Å","Æ","Ç","È","É","Ê","Ë",
                "Ì","Í","Î","Ï","Ð","Ñ","Ò","Ó","Ô","Õ","Ö","Ø",
                "Ù","Ú","Û","Ü","Ý","Þ">>
LowerChars == <<"a","b","c","d","e","f","g","h","i","j","k","l","m",
                "n","o","p","q","r","s","t","u","v","w","x","y","z",
                "à","á","â","ã","ä","å","æ","ç","è","é","ê","ë",
                "ì","í","î","ï","ð","ñ","ò","ó","ô","õ","ö","ø",
                "ù","ú","û","ü","ý","þ">>

lower_char(c) ==
    IF \E i \in DOMAIN UpperChars : UpperChars[i] = c
    THEN LowerChars[CHOOSE i \in DOMAIN UpperChars : UpperChars[i] = c]
    ELSE c

\* A plausible slip: the text is matched without lower-casing it.
lower_unchanged(text) == text

\* str.lower()
lower(text) == [i \in DOMAIN text |-> lower_char(text[i])]

RECURSIVE lstrip(_)
lstrip(text) ==
    IF text # <<>> /\ Head(text) \in Whitespace THEN lstrip(Tail(text)) ELSE text

RECURSIVE rstrip(_)
rstrip(text) ==
    IF text # <<>> /\ text[Len(text)] \in Whitespace
    THEN rstrip(SubSeq(text, 1, Len(text) - 1))
    ELSE text

\* str.strip()
strip(text) == rstrip(lstrip(text))

\* `word in lowered`
contains(lowered, word) ==
    \E i \in 0..(Len(lowered) - Len(word)) :
        SubSeq(lowered, i + 1, i + Len(word)) = word

\* any(word in lowered for word in words)
any_in(lowered, words) == \E k \in DOMAIN words : contains(lowered, words[k])

AnxietyWords ==
    << <<"a","n","x","i","o","u","s">>, <<"a","n","x","i","e","t","y">>,
       <<"w","o","r","r","i","e","d">>, <<"p","a","n","i","c">> >>
SadnessWords ==
    << <<"s","a","d">>, <<"d","o","w","n">>, <<"t","i","r","e","d">> >>
AngerWords ==
    << <<"a","n","g","r","y">>, <<"f","r","u","s","t","r","a","t","e","d">>,
       <<"m","a","d">> >>
SleepWords ==
    << <<"c","a","n","'","t"," ","s","l","e","e","p">>,
       <<"i","n","s","o","m","n","i","a">>, <<"s","l","e","e","p">> >>

\* The replies; the dash of the source's text is written "--" here.
EMPATHY_SEED == <<"I'm here with you.",
                  "That sounds really tough, thank you for sharing it.",
                  "It's okay to feel this way.",
                  "Let's take it one small step at a time.">>
FallbackReply == <<"I'm here whenever you're ready.">>
AnxietyReply == <<"I hear the anxiety showing up. Try a slow breath with me: in for 4, hold for 4, out for 6. What tends to help even a little when this feeling visits?">>
SadnessReply == <<"Feeling low can be heavy. What would be the gentlest next right thing for you--water, a stretch, texting a friend?">>
AngerReply == <<"Anger is a signal. Want to unpack what boundary or need might be underneath it?">>
SleepReply == <<"Rest can be hard when the mind is busy. Would a quick grounding--naming 5 things you can see, 4 you can touch--be okay to try?">>
GenericReply == <<EMPATHY_SEED[1] \o " Tell me more about what's on your mind.">>

generate_reply(text_in) ==
    LET text == strip(text_in)
        lowered == lower(text)
    IN  IF text = <<>> THEN FallbackReply
        ELSE IF any_in(lowered, AnxietyWords) THEN AnxietyReply
        ELSE IF any_in(lowered, SadnessWords) THEN SadnessReply
        ELSE IF any_in(lowered, AngerWords) THEN AngerReply
        ELSE IF any_in(lowered, SleepWords) THEN SleepReply
        ELSE GenericReply

(***************************************************************************)
(* Identifiers                                                             *)
(*                                                                         *)
(* A store identifier (ObjectId) is an integer: conversation k has _id k,  *)
(* the i-th message has _id -i, and 0 is an identifier no document has.    *)
(* An identifier string, as it travels in requests and responses, is a     *)
(* record: the 24 hex digits in lower case (what str() produces), the same *)
(* digits in upper case (which ObjectId() also accepts), the empty string, *)
(* a string that is no identifier, or Python's None.                       *)
(***************************************************************************)
None == [kind |-> "None", n |-> 0]
EmptyStr == [kind |-> "empty", n |-> 0]
Malformed == [kind |-> "malformed", n |-> 0]
UpperHex(oid) == [kind |-> "HEX", n |-> oid]

\* str(ObjectId)
to_str_id(oid) == [kind |-> "hex", n |-> oid]

\* A plausible slip: every non-empty string is taken for an identifier.
ObjectId_accepts_any(s) == TRUE

\* ObjectId(s) raises InvalidId unless s is 24 hex digits
ObjectId_valid(s) == s.kind \in {"hex", "HEX"}

\* ObjectId(s), for a valid s
ObjectId(s) == s.n

\* A plausible slip: the branch that creates a conversation is always taken.
is_falsy_always(s) == TRUE

\* `not conversation_id`
is_falsy(s) == s.kind \in {"None", "empty"}

\* datetime.isoformat() and datetime.fromisoformat()
isoformat(t) == [iso |-> t]
fromisoformat(s) == s.iso

(***************************************************************************)
(* The document store (pymongo): insert_one, update_one, find/sort/limit   *)
(***************************************************************************)
Min(a, b) == IF a < b THEN a ELSE b
Abs(a) == IF a < 0 THEN 0 - a ELSE a

\* collection.insert_one(doc)
insert_one(coll, doc) == Append(coll, doc)

\* db["conversation"].update_one({"_id": oid}, {"$set": {"updated_at": t}}):
\* a filter that matches no document updates nothing and raises nothing.
update_one(coll, oid, t) ==
    [k \in DOMAIN coll |->
        IF k = oid THEN [coll[k] EXCEPT !.updated_at = t] ELSE coll[k]]

\* cursor.limit(n): 0 means no limit, a negative n limits to its absolute value.
limit(docs, n) ==
    IF n = 0 THEN docs ELSE SubSeq(docs, 1, Min(Abs(n), Len(docs)))

\* The documents with the indices S in the order they were inserted.
RECURSIVE insertion_order(_)
insertion_order(S) ==
    IF S = {} THEN <<>>
    ELSE LET first == CHOOSE i \in S : \A j \in S : i <= j
         IN  <<first>> \o insertion_order(S \ {first})

\* A plausible slip: the sort is left out and documents come as inserted.
sorted_orders_unsorted(key, dir, S) == {insertion_order(S)}

\* The orders in which a cursor sorted on `key` may deliver the documents with
\* the indices S: keys in the given direction (1 ascending, -1 descending),
\* documents with equal keys in any order.
RECURSIVE sorted_orders(_, _, _)
sorted_orders(key, dir, S) ==
    IF S = {} THEN {<<>>}
    ELSE LET firsts == {i \in S : \A j \in S : dir * key[i] <= dir * key[j]}
         IN  UNION {{<<i>> \o r : r \in sorted_orders(key, dir, S \ {i})} :
                    i \in firsts}

\* db["message"].find({"conversation_id": cid}).sort("created_at", 1).limit(n):
\* the possible results, each a sequence of indices into the collection.
find_messages(cid, n) ==
    LET S == {i \in DOMAIN message : message[i].conversation_id = cid}
        key == [i \in DOMAIN message |-> message[i].created_at]
    IN  {limit(o, n) : o \in sorted_orders(key, 1, S)}

\* db["conversation"].find().sort("updated_at", -1).limit(n)
find_conversations(n) ==
    LET key == [k \in DOMAIN conversation |-> conversation[k].updated_at]
    IN  {limit(o, n) : o \in sorted_orders(key, -1, DOMAIN conversation)}

\* serialize_doc on a message document with _id -i
serialize_message(i) ==
    [id |-> to_str_id(0 - i),
     conversation_id |-> message[i].conversation_id,
     role |-> message[i].role,
     content |-> message[i].content,
     created_at |-> isoformat(message[i].created_at)]

\* serialize_doc on a conversation document with _id k
serialize_conversation(k) ==
    [id |-> to_str_id(k),
     title |-> conversation[k].title,
     user_id |-> conversation[k].user_id,
     created_at |-> isoformat(conversation[k].created_at),
     updated_at |-> isoformat(conversation[k].updated_at)]

(***************************************************************************)
(* Requests and responses                                                  *)
(***************************************************************************)
ChatLimit == 50    \* .limit(50) of the chat read-back

\* The message texts posted in chat calls: one that matches a keyword set and one
\* of white space only.
Sad == <<"s","a","d">>
Blank == <<" ">>

ChatRequest(cid, text) == [conversation_id |-> cid, message |-> text]

\* The chat requests tried.  The conversation_id is absent, the empty string, a
\* malformed string, a well-formed id no conversation has, the id of a stored
\* conversation as the service renders it, or that id in upper case; each comes
\* with one of the two texts.
Requests ==
    {ChatRequest(None, Sad), ChatRequest(EmptyStr, Blank),
     ChatRequest(Malformed, Sad), ChatRequest(to_str_id(0), Blank)}
        \cup {ChatRequest(to_str_id(k), Blank) : k \in DOMAIN conversation}
        \cup {ChatRequest(UpperHex(k), Sad) : k \in DOMAIN conversation}

LimitValues == (0 - 1)..MaxLimit

NoRequest == ChatRequest(None, <<>>)
NoBefore == [exists |-> FALSE, updated_at |-> 0]
IdleFrame ==
    [request |-> NoRequest, conversation_id |-> None, now |-> 0,
     bot_created_at |-> 0, touch_at |-> 0, touched |-> 0, turn |-> 0,
     before |-> NoBefore]

NoResponse == [op |-> "none"]

\* HTTPException(500, detail="Database not available")
NotAvailable(op_name) ==
    [op |-> op_name, status |-> 500, detail |-> "Database not available"]

\* An exception no handler catches: the framework answers 500.
Unhandled(op_name, turn, exception) ==
    [op |-> op_name, status |-> 500, detail |-> exception, turn |-> turn]

\* The conversation the request's id denotes, as the call finds it on entry
\* (kept to state the claims; the code does not read it).
BeforeCall(cid) ==
    IF ObjectId_valid(cid) /\ ObjectId(cid) \in DOMAIN conversation
    THEN [exists |-> TRUE, updated_at |-> conversation[ObjectId(cid)].updated_at]
    ELSE NoBefore

(***************************************************************************)
(* The initial states: the store handle is set once at start-up, either    *)
(* connected or None; a connected store starts empty.                      *)
(***************************************************************************)
Init ==
    /\ db \in {"Database", "None"}
    /\ conversation = <<>>
    /\ message = <<>>
    /\ turns = 0
    /\ pc = [p \in Procs |-> "idle"]
    /\ frame = [p \in Procs |-> IdleFrame]
    /\ response = NoResponse
    /\ user_text = <<>>

\* datetime.utcnow(): the readings the wall clock can give.  The system clock
\* can be adjusted between two readings, so a reading may be earlier than, equal
\* to or later than the one before it.
utcnow == 0..MaxClock

(***************************************************************************)
(* chat(): POST /api/chat                                                  *)
(***************************************************************************)
\* A plausible slip: the handler goes on without a store.
chat_db_missing_ignored(d) == FALSE

\* `if db is None` of chat
chat_db_missing(d) == d = "None"

\* Lines 182-188: the availability check, then the locals conversation_id and now.
\* Workers are interchangeable: a call is taken by the lowest idle one.
chat_enter(p) ==
    /\ pc[p] = "idle"
    /\ \A q \in Procs : pc[q] = "idle" => p <= q
    /\ turns < MaxTurns
    /\ turns' = turns + 1
    /\ \E request \in Requests, t \in utcnow :
        IF chat_db_missing(db)
        THEN /\ response' = NotAvailable("chat")
             /\ UNCHANGED <<pc, frame>>
        ELSE /\ frame' = [frame EXCEPT ![p] =
                    [IdleFrame EXCEPT
                        !.request = request,
                        !.conversation_id = request.conversation_id,
                        !.now = t,
                        !.turn = turns + 1,
                        !.before = BeforeCall(request.conversation_id)]]
             /\ pc' = [pc EXCEPT ![p] = "ensure"]
             /\ response' = NoResponse
    /\ UNCHANGED <<db, conversation, message, user_text>>

\* create_document("conversation", Conversation(title=None, user_id=None)):
\* inserts the record with both timestamps set to the current time and returns
\* the new id as a string.
create_document(by, t) ==
    insert_one(conversation,
               [title |-> "None", user_id |-> "None",
                created_at |-> t, updated_at |-> t, by |-> by])

\* Lines 190-195: create the conversation, or touch the one named.
chat_ensure(p) ==
    /\ pc[p] = "ensure"
    /\ LET f == frame[p] IN
        IF is_falsy(f.conversation_id)
        THEN /\ \E t \in utcnow : conversation' = create_document(f.turn, t)
             /\ frame' = [frame EXCEPT ![p].conversation_id =
                              to_str_id(Len(conversation) + 1)]
             /\ pc' = [pc EXCEPT ![p] = "user"]
             /\ response' = NoResponse
        ELSE IF ~ObjectId_valid(f.conversation_id)
        THEN /\ response' = Unhandled("chat", f.turn, "InvalidId")
             /\ frame' = [frame EXCEPT ![p] = IdleFrame]
             /\ pc' = [pc EXCEPT ![p] = "idle"]
             /\ UNCHANGED conversation
        ELSE /\ conversation' =
                    update_one(conversation, ObjectId(f.conversation_id), f.now)
             /\ pc' = [pc EXCEPT ![p] = "user"]
             /\ response' = NoResponse
             /\ UNCHANGED frame
    /\ UNCHANGED <<db, message, turns, user_text>>

\* A plausible slip: the user's message is stored with the assistant's role.
user_msg_as_assistant(f) ==
    [conversation_id |-> f.conversation_id, role |-> "assistant",
     content |-> f.request.message, created_at |-> f.now, turn |-> f.turn]

\* Lines 198-204
user_msg(f) ==
    [conversation_id |-> f.conversation_id, role |-> "user",
     content |-> f.request.message, created_at |-> f.now, turn |-> f.turn]

\* Line 205
chat_store_user(p) ==
    /\ pc[p] = "user"
    /\ message' = insert_one(message, user_msg(frame[p]))
    /\ pc' = [pc EXCEPT ![p] = "bot"]
    /\ response' = NoResponse
    /\ UNCHANGED <<db, conversation, turns, frame, user_text>>

\* A plausible slip: the assistant message is filed under the id the request carried.
bot_msg_request_id(f) ==
    [conversation_id |-> f.request.conversation_id, role |-> "assistant",
     content |-> generate_reply(f.request.message),
     created_at |-> f.bot_created_at, turn |-> f.turn]

\* Lines 208-216
bot_msg(f) ==
    [conversation_id |-> f.conversation_id, role |-> "assistant",
     content |-> generate_reply(f.request.message),
     created_at |-> f.bot_created_at, turn |-> f.turn]

\* Lines 208-217: the reply is computed, the assistant message's created_at
\* read, and the message stored.
chat_store_bot(p) ==
    /\ pc[p] = "bot"
    /\ \E t \in utcnow :
        /\ frame' = [frame EXCEPT ![p].bot_created_at = t]
        /\ message' = insert_one(message, bot_msg(frame'[p]))
    /\ pc' = [pc EXCEPT ![p] = "touch"]
    /\ response' = NoResponse
    /\ UNCHANGED <<db, conversation, turns, user_text>>

\* A plausible slip: the last touch reuses the time read on entry.
last_touch_stale(f) == f.now

\* Line 220: the value of the last touch is the fresh reading
last_touch(f) == f.touch_at

\* Line 220: datetime.utcnow() is read and the update made.  `touched` keeps the
\* updated_at the conversation has right after the update (to state the claims;
\* the code does not read it).
chat_touch(p) ==
    /\ pc[p] = "touch"
    /\ \E t \in utcnow :
        LET f == [frame[p] EXCEPT !.touch_at = t]
            c == ObjectId(f.conversation_id)
        IN  /\ conversation' = update_one(conversation, c, last_touch(f))
            /\ frame' = [frame EXCEPT ![p] =
                            [f EXCEPT !.touched =
                                IF c \in DOMAIN conversation
                                THEN conversation'[c].updated_at ELSE 0]]
    /\ pc' = [pc EXCEPT ![p] = "read_back"]
    /\ response' = NoResponse
    /\ UNCHANGED <<db, message, turns, user_text>>

\* Lines 226-232 and 234-239: each document read back becomes a Message
message_out(i) ==
    LET d == serialize_message(i)
    IN  [conversation_id |-> d.conversation_id, role |-> d.role,
         content |-> d.content, created_at |-> fromisoformat(d.created_at)]

\* Lines 223-239: read back and answer.  `found` keeps which stored documents
\* the answer's messages are, `touch_at` the clock reading taken for the last
\* touch and `touched` the updated_at that touch left (to state the claims; they
\* are not part of the body).
chat_respond(p) ==
    /\ pc[p] = "read_back"
    /\ \E found \in find_messages(frame[p].conversation_id, ChatLimit) :
        response' =
            [op |-> "chat", status |-> 200,
             request |-> frame[p].request,
             turn |-> frame[p].turn,
             before |-> frame[p].before,
             touch_at |-> frame[p].touch_at,
             touched |-> frame[p].touched,
             conversation_id |-> frame[p].conversation_id,
             reply |-> generate_reply(frame[p].request.message),
             messages |-> [j \in DOMAIN found |-> message_out(found[j])],
             found |-> found]
    /\ frame' = [frame EXCEPT ![p] = IdleFrame]
    /\ pc' = [pc EXCEPT ![p] = "idle"]
    /\ UNCHANGED <<db, conversation, message, turns, user_text>>

\* The worker dies inside a chat call: the call is abandoned where it stands,
\* nothing is undone.
crash(p) ==
    /\ pc[p] # "idle"
    /\ response' = [op |-> "crash", status |-> 0, turn |-> frame[p].turn]
    /\ frame' = [frame EXCEPT ![p] = IdleFrame]
    /\ pc' = [pc EXCEPT ![p] = "idle"]
    /\ UNCHANGED <<db, conversation, message, turns, user_text>>

(***************************************************************************)
(* list_messages(): GET /api/conversations/{conversation_id}/messages      *)
(***************************************************************************)
\* Lines 146-152
MessageOut(doc) ==
    [id |-> doc.id, conversation_id |-> doc.conversation_id, role |-> doc.role,
     content |-> doc.content, created_at |-> doc.created_at]

\* The ids a client may put in the path: any non-empty string.
PathIds ==
    {Malformed, to_str_id(0)}
        \cup {to_str_id(k) : k \in DOMAIN conversation}
        \cup {UpperHex(k) : k \in DOMAIN conversation}

\* One store read, made by a worker that is not inside a chat call.  A list call
\* is taken once the previous answer has gone out (a list call changes nothing a
\* later call could see).
list_messages ==
    /\ \E p \in Procs : pc[p] = "idle"
    /\ response.op = "none"
    /\ \E cid \in PathIds, n \in LimitValues :
        IF db = "None"
        THEN response' = NotAvailable("list_messages")
        ELSE \E found \in find_messages(cid, n) :
                response' =
                    [op |-> "list_messages", status |-> 200,
                     conversation_id |-> cid, limit |-> n,
                     results |-> [j \in DOMAIN found |->
                                     MessageOut(serialize_message(found[j]))],
                     found |-> found]
    /\ UNCHANGED <<db, conversation, message, turns, pc, frame, user_text>>

(***************************************************************************)
(* list_conversations(): GET /api/conversations                            *)
(***************************************************************************)
\* Lines 128-134
ConversationOut(doc) ==
    [id |-> doc.id, title |-> doc.title, user_id |-> doc.user_id,
     created_at |-> doc.created_at, updated_at |-> doc.updated_at]

\* Line 124 tests the handle's truth value, `if db`: None is false and the
\* handler goes on with an empty list.  A connected handle is either true or,
\* when it is a pymongo Database (which implements no truth value), the test
\* raises NotImplementedError; both outcomes are kept.
list_conversations ==
    /\ \E p \in Procs : pc[p] = "idle"
    /\ response.op = "none"
    /\ \E n \in LimitValues :
        IF db = "None"
        THEN response' = [op |-> "list_conversations", status |-> 200,
                          limit |-> n, results |-> <<>>]
        ELSE \/ response' = Unhandled("list_conversations", 0, "NotImplementedError")
             \/ \E found \in find_conversations(n) :
                    response' =
                        [op |-> "list_conversations", status |-> 200, limit |-> n,
                         results |-> [j \in DOMAIN found |->
                                ConversationOut(serialize_conversation(found[j]))]]
    /\ UNCHANGED <<db, conversation, message, turns, pc, frame, user_text>>

(***************************************************************************)
(* The service: workers take chat calls through their steps in any         *)
(* interleaving; the list endpoints are one store read each.  SpecChat is  *)
(* the service under chat calls alone.                                     *)
(***************************************************************************)
chat(p) ==
    \/ chat_enter(p)
    \/ chat_ensure(p)
    \/ chat_store_user(p)
    \/ chat_store_bot(p)
    \/ chat_touch(p)
    \/ chat_respond(p)

Next ==
    \/ list_messages
    \/ list_conversations
    \/ \E p \in Procs : chat(p)
    \/ \E p \in Procs : crash(p)

Spec == Init /\ [][Next]_vars

NextChat ==
    \/ \E p \in Procs : chat(p)
    \/ \E p \in Procs : crash(p)

SpecChat == Init /\ [][NextChat]_vars

(***************************************************************************)
(* generate_reply called on its own, over texts put together from          *)
(* fragments: keywords of every set in mixed case, parts of keywords,      *)
(* white space of every kind and other words.                              *)
(***************************************************************************)
Fragments ==
    { <<" ">>, <<"\t">>, <<"\n">>, <<"\r">>, <<"\f">>, <<"">>,
      <<" ">>, <<"U+3000">>, <<"É">>,
      <<"o","k">>, <<"I">>,
      <<"a","n","x","i","o","u","s">>, <<"A","n","x","i","e","t","y">>,
      <<"W","O","R","R","I","E","D">>, <<"p","a","n","i","c">>,
      <<"s","a","d">>, <<"D","o","w","n">>, <<"t","i","r","e","d">>,
      <<"a","n","g","r","y">>, <<"F","r","u","s","t","r","a","t","e","d">>,
      <<"m","a","d">>, <<"c","a","n","'","t">>, <<"S","L","E","E","P">>,
      <<"i","n","s","o","m","n","i","a">>, <<"s","l","e","e","p">>,
      <<"a","n","x">>, <<"i","o","u","s">>, <<"s","a">>, <<"d","e","n">> }

RECURSIVE Joined(_)
Joined(n) ==
    IF n = 0 THEN {<<>>}
    ELSE Joined(n - 1) \cup {t \o f : t \in Joined(n - 1), f \in Fragments}

ReplyInputs == Joined(MaxParts)

InitReply ==
    /\ db = "Database"
    /\ conversation = <<>>
    /\ message = <<>>
    /\ turns = 0
    /\ pc = [p \in Procs |-> "idle"]
    /\ frame = [p \in Procs |-> IdleFrame]
    /\ response = NoResponse
    /\ user_text \in ReplyInputs

call_generate_reply ==
    /\ response.op = "none"
    /\ response' = [op |-> "generate_reply", user_text |-> user_text,
                    reply |-> generate_reply(user_text)]
    /\ UNCHANGED <<db, conversation, message, turns, pc, frame, user_text>>

NextReply == call_generate_reply

SpecReply == InitReply /\ [][NextReply]_vars

(***************************************************************************)
(* Claims about generate_reply                                             *)
(***************************************************************************)
AllWhitespace(t) == \A i \in DOMAIN t : t[i] \in Whitespace

\* The text with every upper-case letter replaced by its lower-case letter.
Lowered(t) == [i \in DOMAIN t |-> lower_char(t[i])]

\* Some word of the set occurs in the lower-cased text.
Mentions(t, words) ==
    LET low == Lowered(t)
    IN  \E k \in DOMAIN words : \E i \in 1..Len(low) :
            LET j == i + Len(words[k]) - 1
            IN  j <= Len(low) /\ SubSeq(low, i, j) = words[k]

\* C5: generate_reply answers a text that is empty or all white space with the
\* fallback message; any other text with the response of the first keyword set,
\* in the order anxiety, sadness, anger, sleep, one of whose words occurs in the
\* lower-cased text; and a text in which no word occurs with the generic prompt.
C5_ReplyLookup ==
    response.op = "generate_reply" =>
        LET t == response.user_text
            r == response.reply
            anx == Mentions(t, AnxietyWords)
            sad == Mentions(t, SadnessWords)
            ang == Mentions(t, AngerWords)
            slp == Mentions(t, SleepWords)
        IN  IF AllWhitespace(t) THEN r = FallbackReply
            ELSE /\ anx => r = AnxietyReply
                 /\ (~anx /\ sad) => r = SadnessReply
                 /\ (~anx /\ ~sad /\ ang) => r = AngerReply
                 /\ (~anx /\ ~sad /\ ~ang /\ slp) => r = SleepReply
                 /\ (~anx /\ ~sad /\ ~ang /\ ~slp) =>
                        r = <<"I'm here with you. Tell me more about what's on your mind.">>

\* An upper-case anxiety word together with a sadness word is answered with the
\* anxiety response.
C5_Witness ==
    /\ response.op = "generate_reply"
    /\ response.user_text = <<"s","a","d">> \o <<"W","O","R","R","I","E","D">>
    /\ response.reply = AnxietyReply

(***************************************************************************)
(* A conversation with a long history: the store after 24 or 25 chat turns *)
(* on one conversation, each made alone at earlier readings of its own,    *)
(* and one worker that takes further calls.                                *)
(***************************************************************************)
PriorTurns == {24, 25}

\* The j-th message of a history of n turns: turn (j+1) \div 2, read at time j - 2n - 1.
PriorMessage(n, j) ==
    [conversation_id |-> to_str_id(1),
     role |-> IF j % 2 = 1 THEN "user" ELSE "assistant",
     content |-> IF j % 2 = 1 THEN Sad ELSE generate_reply(Sad),
     created_at |-> j - 2 * n - 1,
     turn |-> 0 - ((j + 1) \div 2)]

InitLong ==
    /\ db = "Database"
    /\ \E n \in PriorTurns :
        /\ conversation = << [title |-> "None", user_id |-> "None",
                              created_at |-> 0 - 2 * n, updated_at |-> 0 - 1,
                              by |-> 0 - 1] >>
        /\ message = [j \in 1..(2 * n) |-> PriorMessage(n, j)]
    /\ turns = 0
    /\ pc = [p \in Procs |-> "idle"]
    /\ frame = [p \in Procs |-> IdleFrame]
    /\ response = NoResponse
    /\ user_text = <<>>

NextLong == \E p \in Procs : p = 1 /\ chat(p)

SpecLong == InitLong /\ [][NextLong]_vars

(***************************************************************************)
(* Claims about the chat turn                                              *)
(***************************************************************************)
\* The messages a turn has stored, in the order it stored them.
WrittenBy(t) == SelectSeq(message, LAMBDA m : m.turn = t)

\* The conversations a turn has created.
CreatedBy(t) == {k \in DOMAIN conversation : conversation[k].by = t}

ChatOk == response.op = "chat" /\ response.status = 200

\* C1: a successful chat call without a conversation_id (absent or empty) creates
\* exactly one conversation and stores exactly two messages, the user's with the
\* request text and then the assistant's with the generated reply, both under the
\* new conversation's id, which is also the response's conversation_id.
C1_NewConversation ==
    (ChatOk /\ response.request.conversation_id \in {None, EmptyStr}) =>
        LET mine == WrittenBy(response.turn)
            made == CreatedBy(response.turn)
        IN  /\ Cardinality(made) = 1
            /\ \A k \in made : response.conversation_id = to_str_id(k)
            /\ Len(mine) = 2
            /\ mine[1].role = "user"
            /\ mine[1].content = response.request.message
            /\ mine[2].role = "assistant"
            /\ mine[2].content = generate_reply(response.request.message)
            /\ response.reply = mine[2].content
            /\ \A j \in 1..2 : mine[j].conversation_id = response.conversation_id

\* A call with the empty string as conversation_id succeeds on a store that
\* already held a conversation with messages.
C1_Witness ==
    /\ ChatOk
    /\ response.request.conversation_id = EmptyStr
    /\ Len(conversation) = 2
    /\ Len(message) = 4

\* C2 as claimed: a successful chat call that names an existing conversation
\* creates no conversation, stores exactly two messages (user, then assistant)
\* under the id it was given, and leaves the conversation's updated_at strictly
\* later than it was before the call.
C2_Claimed ==
    (ChatOk /\ response.before.exists) =>
        LET mine == WrittenBy(response.turn)
            c == ObjectId(response.request.conversation_id)
        IN  /\ CreatedBy(response.turn) = {}
            /\ Len(mine) = 2
            /\ mine[1].role = "user"
            /\ mine[2].role = "assistant"
            /\ \A j \in 1..2 :
                    mine[j].conversation_id = response.request.conversation_id
            /\ conversation[c].updated_at > response.before.updated_at

\* C2 as amended: such a call creates no conversation, stores exactly two
\* messages (user, then assistant) under the id it was given, and its last touch
\* sets the conversation's updated_at to the clock reading the call took after
\* storing both messages; the value is later than the one before the call when
\* that reading is, and not otherwise.
C2_ExistingConversation ==
    (ChatOk /\ response.before.exists) =>
        LET mine == WrittenBy(response.turn)
        IN  /\ CreatedBy(response.turn) = {}
            /\ Len(mine) = 2
            /\ mine[1].role = "user"
            /\ mine[1].content = response.request.message
            /\ mine[2].role = "assistant"
            /\ \A j \in 1..2 :
                    mine[j].conversation_id = response.request.conversation_id
            /\ response.touched = response.touch_at
            /\ response.touched > response.before.updated_at
                    <=> response.touch_at > response.before.updated_at

\* A call on an existing conversation ends with updated_at later than before.
C2_Witness ==
    /\ ChatOk
    /\ response.before.exists
    /\ response.touched > response.before.updated_at
    /\ conversation[ObjectId(response.request.conversation_id)].updated_at
            > response.before.updated_at

\* C3 as claimed: every stored message's conversation_id is the id of a stored
\* conversation.
C3_Claimed ==
    \A i \in DOMAIN message :
        \E k \in DOMAIN conversation : message[i].conversation_id = to_str_id(k)

\* C7 as claimed: the messages of a successful chat response include the user
\* message and the assistant reply the turn stored, and for a conversation the
\* turn created they are exactly those two.
C7_Claimed ==
    ChatOk =>
        /\ \A i \in DOMAIN message :
                message[i].turn = response.turn =>
                    \E j \in DOMAIN response.found : response.found[j] = i
        /\ CreatedBy(response.turn) # {} => Len(response.messages) = 2

\* C8: whatever was interleaved and wherever calls were abandoned, under each
\* conversation_id there are at least as many user messages as assistant
\* messages, and every assistant message was stored after the user message of
\* its own turn.
C8_UserBeforeAssistant ==
    /\ \A i \in DOMAIN message :
        LET cid == message[i].conversation_id
            n(role) == Cardinality({j \in DOMAIN message :
                            /\ message[j].conversation_id = cid
                            /\ message[j].role = role})
        IN  n("user") >= n("assistant")
    /\ \A i \in DOMAIN message :
        message[i].role = "assistant" =>
            \E j \in 1..(i - 1) :
                /\ message[j].role = "user"
                /\ message[j].turn = message[i].turn
                /\ message[j].conversation_id = message[i].conversation_id

\* A call was abandoned after its user message: that turn has a user message
\* and no assistant message, next to a complete turn.
C8_Witness ==
    /\ response.op = "crash"
    /\ Len(WrittenBy(response.turn)) = 1
    /\ \E i \in DOMAIN message : message[i].role = "assistant"

\* The worker whose step this is.
Steps(p) == pc'[p] # pc[p] \/ frame'[p] # frame[p]

\* C9: a chat call with a malformed conversation_id ends in an unhandled failure
\* (InvalidId) at its first store access, and no step of the call changes the
\* conversation or message collection.
C9_MalformedId ==
    [][\A p \in Procs :
        (Steps(p) /\ (frame[p].request.conversation_id = Malformed
                        \/ frame'[p].request.conversation_id = Malformed)) =>
            /\ conversation' = conversation
            /\ message' = message
            /\ pc[p] = "ensure" =>
                /\ pc'[p] = "idle"
                /\ response' \in {Unhandled("chat", frame[p].turn, "InvalidId"),
                                  [op |-> "crash", status |-> 0,
                                   turn |-> frame[p].turn]}]_vars

\* A call with a malformed id has failed on a store that holds messages.
C9_Witness ==
    /\ response.op = "chat"
    /\ response.status = 500
    /\ response.detail = "InvalidId"
    /\ Len(message) = 2

\* C10 as claimed: no step lowers a conversation's updated_at, also when turns
\* interleave.
C10_Claimed ==
    [][\A k \in DOMAIN conversation :
        conversation'[k].updated_at >= conversation[k].updated_at]_vars

\* C10 as amended: the last touch of a turn whose clock readings did not go
\* back (on entry, for the assistant message, for the touch) sets updated_at to a
\* time not earlier than the created_at of the two messages the turn stored.
C10_LastTouch ==
    [][\A p \in Procs :
        (/\ pc[p] = "touch" /\ pc'[p] = "read_back"
         /\ frame[p].now <= frame[p].bot_created_at
         /\ frame[p].bot_created_at <= frame'[p].touch_at) =>
            LET c == ObjectId(frame[p].conversation_id)
            IN  c \in DOMAIN conversation =>
                    \A i \in DOMAIN message :
                        message[i].turn = frame[p].turn =>
                            conversation'[c].updated_at >= message[i].created_at]_vars

\* A turn whose readings did not go back has set updated_at, by its last touch,
\* later than the time the turn read on entry, with both of its messages stored.
C10_Witness ==
    \E p \in Procs :
        /\ pc[p] = "read_back"
        /\ frame[p].now <= frame[p].bot_created_at
        /\ frame[p].bot_created_at <= frame[p].touch_at
        /\ frame[p].touched = frame[p].touch_at
        /\ ObjectId(frame[p].conversation_id) \in DOMAIN conversation
        /\ conversation[ObjectId(frame[p].conversation_id)].updated_at > frame[p].now
        /\ Len(WrittenBy(frame[p].turn)) = 2

(***************************************************************************)
(* Claims about the list endpoints and the unavailable store               *)
(***************************************************************************)
\* C4 as claimed: without a store, list conversations, list messages and chat
\* all answer 500 "Database not available" and write nothing.
C4_Claimed ==
    db = "None" =>
        /\ conversation = <<>> /\ message = <<>>
        /\ response.op \in {"chat", "list_messages", "list_conversations"} =>
                (response.status = 500 /\ response.detail = "Database not available")

\* C4 as amended: without a store, list messages and chat answer 500 "Database
\* not available" at once, list conversations answers normally with an empty
\* list, and none of them writes to the store or goes on to a further step.
C4_StoreUnavailable ==
    db = "None" =>
        /\ conversation = <<>> /\ message = <<>>
        /\ \A p \in Procs : pc[p] = "idle" /\ frame[p] = IdleFrame
        /\ response.op \in {"chat", "list_messages"} =>
                (response.status = 500 /\ response.detail = "Database not available")
        /\ response.op = "list_conversations" =>
                (response.status = 200 /\ response.results = <<>>)

\* Without a store, a second chat call has been refused like the first.
C4_Witness ==
    /\ db = "None"
    /\ turns = 2
    /\ response = NotAvailable("chat")

\* The number of stored messages filed under an id.
StoredUnder(cid) ==
    Cardinality({i \in DOMAIN message : message[i].conversation_id = cid})

ListOk == response.op = "list_messages" /\ response.status = 200

\* All results belong to the conversation asked for and come in non-decreasing
\* created_at order.
OwnAndOrdered ==
    /\ \A j \in DOMAIN response.results :
            response.results[j].conversation_id = response.conversation_id
    /\ \A j \in DOMAIN response.results : \A k \in DOMAIN response.results :
            j < k => fromisoformat(response.results[j].created_at)
                        <= fromisoformat(response.results[k].created_at)

\* C6 as claimed: list_messages returns at most `limit` messages (for a limit
\* that is a count, 0 or more), all of the conversation asked for, in
\* non-decreasing created_at order.
C6_Claimed ==
    (ListOk /\ response.limit >= 0) =>
        (Len(response.results) <= response.limit /\ OwnAndOrdered)

\* C6 as amended: list_messages returns messages of the conversation asked for
\* only, in non-decreasing created_at order; at most `limit` of them when limit
\* is 1 or more, all of them when limit is 0, and at most -limit of them when
\* limit is negative.
C6_ListMessages ==
    ListOk =>
        /\ OwnAndOrdered
        /\ response.limit >= 1 => Len(response.results) <= response.limit
        /\ response.limit = 0 =>
                Len(response.results) = StoredUnder(response.conversation_id)
        /\ response.limit < 0 => Len(response.results) <= 0 - response.limit

\* A list call with a positive limit returned two messages in created_at order
\* that had been inserted in the opposite order (by interleaved turns, or with
\* the clock set back between them).
C6_Witness ==
    /\ ListOk
    /\ response.limit = 2
    /\ Len(response.results) = 2
    /\ response.found[1] > response.found[2]
    /\ fromisoformat(response.results[1].created_at)
            < fromisoformat(response.results[2].created_at)

====
